---- MODULE Spec2Model ----
(***************************************************************************)
(* Model of backend/src/matchmaker.ts (class TapRaceMatchmaker): the       *)
(* waiting queue, the matches, the two player indices, the setTimeout      *)
(* callbacks (start, end, cleanup) and the events emitted to sockets.      *)
(* Time is the value of Date.now(); a timer fires when the clock has       *)
(* reached its deadline and the clock never passes a pending deadline.     *)
(* The deposit and withdrawal handlers of backend/src/routes/wallet.ts are *)
(* modelled beside it, on their own variables.                             *)
(***************************************************************************)
EXTENDS Integers, Sequences, FiniteSets, TLC

\* ------------------------------------------------------------------ bounds
\* User ids a request may carry.
UserIds == {"A", "B"}
\* The authenticated user of each connection, by socket id (cyclic).
SocketUsers == <<"A", "B">>
Usernames == {"nick"}
MaxSockets == 2
MaxMatches == 2
\* Accepted taps per run of Spec, and of SpecTaps.
MaxTaps == 1
RunTaps == 3
\* Clock steps of TickMs per run of SpecTaps.
RunTicks == 3
TickMs == 50
\* Date.now() when the process starts.
Epoch == 1000
\* Client timestamps sent with a tap, relative to the server's clock.
SkewOffsets == {-101, 0, 100}
\* Inputs of the validator harness (SpecValidate).
LastMax == 2
NowMin == 95
NowMax == 107
TsSlack == 103
\* Wallet service: transactions recorded per run of SpecWallet.
MaxTxns == 3

\* ------------------------------------------------------- program constants
MATCH_SIZE == 2
MATCH_DURATION == 30000
TAP_VALIDATION_WINDOW == 100
MAX_TAPS_PER_SECOND == 10
START_DELAY == 2000
CLEANUP_DELAY == 5000
\* The literal of the deposit limit in routes/wallet.ts.
DepositLimit == 10000

SocketIds == 1..MaxSockets
MatchIds == 1..MaxMatches

VARIABLES
    now,            \* Date.now()
    connected,      \* socket ids of the live connections
    nextSocket,     \* socket ids are fresh: the next id to hand out
    queue,          \* queue.players, a Map in insertion order: Seq of Player
    playerQueue,    \* keys of playerQueue (every value is 'main')
    playerToMatch,  \* playerId -> matchId
    matches,        \* keys of the matches Map
    matchObj,       \* the GameMatch objects ever created (closures keep them)
    nextMatchId,    \* uuidv4(): a fresh id per match
    timers,         \* pending setTimeout callbacks, in scheduling order
    emitted,        \* the events emitted by the last handler or callback
    ticks,          \* number of TickMs steps taken (bounded by RunTicks)
    probe,          \* validator harness: the inputs
    verdict,        \* validator harness: the result, << >> before the call
    wallets,        \* wallet service: userId -> balance (the wallets Map)
    transactions,   \* wallet service: the transactions array
    response        \* wallet service: the last HTTP response, << >> before any

vars == <<now, connected, nextSocket, queue, playerQueue, playerToMatch,
          matches, matchObj, nextMatchId, timers, emitted, ticks,
          probe, verdict, wallets, transactions, response>>

\* ----------------------------------------------------------------- helpers
Null == << >>
Some(x) == <<x>>

Abs(x) == IF x < 0 THEN -x ELSE x

ToSocket(s) == [kind |-> "socket", id |-> s]
ToRoom(m) == [kind |-> "room", id |-> m]
Ev(name, target, payload) == [ev |-> name, to |-> target, data |-> payload]

\* The mutable matchmaker state a handler works on; emitted starts empty.
Cur ==
    [queue |-> queue, playerQueue |-> playerQueue, playerToMatch |-> playerToMatch,
     matches |-> matches, matchObj |-> matchObj, nextMatchId |-> nextMatchId,
     timers |-> timers, emitted |-> << >>]

\* A match object stays alive while the matches Map or a pending cleanup closure
\* refers to it; nothing can read it afterwards.
Reachable(S) ==
    S.matches \cup {S.timers[i].match : i \in {j \in 1..Len(S.timers) : S.timers[j].kind = "cleanup"}}

Commit(S) ==
    /\ queue' = S.queue
    /\ playerQueue' = S.playerQueue
    /\ playerToMatch' = S.playerToMatch
    /\ matches' = S.matches
    /\ matchObj' = [m \in Reachable(S) |-> S.matchObj[m]]
    /\ nextMatchId' = S.nextMatchId
    /\ timers' = S.timers
    /\ emitted' = S.emitted

emit(S, e) == [S EXCEPT !.emitted = Append(@, e)]

RECURSIVE emitAll(_, _)
emitAll(S, es) == IF es = << >> THEN S ELSE emitAll(emit(S, Head(es)), Tail(es))

\* Map operations on a Map<string, Player> kept as a sequence in insertion order.
MapHas(m, k) == \E i \in 1..Len(m) : m[i].id = k
MapIndex(m, k) == CHOOSE i \in 1..Len(m) : m[i].id = k
MapGet(m, k) == m[MapIndex(m, k)]
MapSet(m, p) == IF MapHas(m, p.id) THEN [m EXCEPT ![MapIndex(m, p.id)] = p] ELSE Append(m, p)
MapDelete(m, k) == SelectSeq(m, LAMBDA p : p.id # k)
MapKeys(m) == {m[i].id : i \in 1..Len(m)}

\* Map<string, string> kept as a function.
IndexDelete(f, k) == [x \in (DOMAIN f) \ {k} |-> f[x]]
IndexSet(f, k, v) == [x \in (DOMAIN f) \cup {k} |-> IF x = k THEN v ELSE f[x]]

RECURSIVE IndexDeleteAll(_, _)
IndexDeleteAll(f, ps) ==
    IF ps = << >> THEN f ELSE IndexDeleteAll(IndexDelete(f, Head(ps).id), Tail(ps))

RECURSIVE IndexSetAll(_, _, _)
IndexSetAll(f, ps, v) ==
    IF ps = << >> THEN f ELSE IndexSetAll(IndexSet(f, Head(ps).id, v), Tail(ps), v)

RemoveAt(s, i) == SubSeq(s, 1, i - 1) \o SubSeq(s, i + 1, Len(s))

schedule(S, kind, matchId, at) ==
    [S EXCEPT !.timers = Append(@, [kind |-> kind, match |-> matchId, at |-> at])]

\* The value a handler reads for a field its payload lacks (const { userId } =
\* data gives undefined); a Map takes it as a key like any other value.
Undefined == "undefined"

\* The sockets in the room named after a match: the one socket.join of the
\* program is socket.join('queue'), so no socket is ever in such a room.
MatchRoom(matchId) == {}

\* The sockets an event reaches: io.to(socketId) and socket.emit reach that one
\* socket, io.to(matchId) the members of the match's room.
Recipients(e) == IF e.to.kind = "socket" THEN {e.to.id} ELSE MatchRoom(e.to.id)

\* -------------------------------------------------------------- validateTap
\* validateTap recording the client's timestamp as the time of the tap.
validateTap_ClientClock(player, timestamp, currentTime) ==
    LET timeDifference == Abs(currentTime - timestamp)
        timeSinceLastTap == currentTime - player.lastTapTimestamp
    IN  IF timeDifference > TAP_VALIDATION_WINDOW
        THEN [ok |-> FALSE, player |-> player]
        ELSE IF timeSinceLastTap * MAX_TAPS_PER_SECOND < 1000
        THEN [ok |-> FALSE, player |-> player]
        ELSE [ok |-> TRUE, player |-> [player EXCEPT !.lastTapTimestamp = timestamp]]

\* validateTap recording the time of the tap before the rate check.
validateTap_StampBeforeRate(player, timestamp, currentTime) ==
    LET timeDifference == Abs(currentTime - timestamp)
        timeSinceLastTap == currentTime - player.lastTapTimestamp
        stamped == [player EXCEPT !.lastTapTimestamp = currentTime]
    IN  IF timeDifference > TAP_VALIDATION_WINDOW
        THEN [ok |-> FALSE, player |-> player]
        ELSE IF timeSinceLastTap * MAX_TAPS_PER_SECOND < 1000
        THEN [ok |-> FALSE, player |-> stamped]
        ELSE [ok |-> TRUE, player |-> stamped]

\* validateTap with an exclusive skew window.
validateTap_StrictWindow(player, timestamp, currentTime) ==
    LET timeDifference == Abs(currentTime - timestamp)
        timeSinceLastTap == currentTime - player.lastTapTimestamp
    IN  IF timeDifference >= TAP_VALIDATION_WINDOW
        THEN [ok |-> FALSE, player |-> player]
        ELSE IF timeSinceLastTap * MAX_TAPS_PER_SECOND < 1000
        THEN [ok |-> FALSE, player |-> player]
        ELSE [ok |-> TRUE, player |-> [player EXCEPT !.lastTapTimestamp = currentTime]]

\* validateTap without the rate check.
validateTap_NoRateCheck(player, timestamp, currentTime) ==
    LET timeDifference == Abs(currentTime - timestamp)
    IN  IF timeDifference > TAP_VALIDATION_WINDOW
        THEN [ok |-> FALSE, player |-> player]
        ELSE [ok |-> TRUE, player |-> [player EXCEPT !.lastTapTimestamp = currentTime]]

\* Returns the verdict and the Player object as the call leaves it. The source
\* compares with the quotient 1000 / MAX_TAPS_PER_SECOND (a JavaScript number):
\* x < 1000 / k is x * k < 1000 for the positive k.
validateTap(player, timestamp, currentTime) ==
    LET timeDifference == Abs(currentTime - timestamp)
        timeSinceLastTap == currentTime - player.lastTapTimestamp
    IN  IF timeDifference > TAP_VALIDATION_WINDOW
        THEN [ok |-> FALSE, player |-> player]
        ELSE IF timeSinceLastTap * MAX_TAPS_PER_SECOND < 1000
        THEN [ok |-> FALSE, player |-> player]
        ELSE [ok |-> TRUE, player |-> [player EXCEPT !.lastTapTimestamp = currentTime]]

\* ----------------------------------------------------------------- startMatch
startMatch(S, matchId, t) ==
    IF matchId \notin S.matches THEN S
    ELSE
        LET match == [S.matchObj[matchId] EXCEPT !.status = "active", !.startTime = Some(t)]
            S1 == [S EXCEPT !.matchObj[matchId] = match]
            S2 == emitAll(S1, [i \in 1..Len(match.players) |->
                      Ev("match_started", ToSocket(match.players[i].socketId),
                         [matchId |-> matchId, duration |-> match.duration,
                          startTime |-> match.startTime])])
        IN  schedule(S2, "end", matchId, t + match.duration)

\* createMatch that leaves the matched players in playerQueue.
createMatch_KeepsQueueIndex(S, t) ==
    IF Len(S.queue) < MATCH_SIZE THEN S
    ELSE
        LET matchId == S.nextMatchId
            players == SubSeq(S.queue, 1, MATCH_SIZE)
            match == [id |-> matchId, players |-> players, status |-> "waiting",
                      startTime |-> Null, endTime |-> Null,
                      duration |-> MATCH_DURATION, winner |-> Null]
            roster == [i \in 1..Len(players) |->
                          [id |-> players[i].id, username |-> players[i].username]]
            S1 == [S EXCEPT
                      !.queue = SelectSeq(@, LAMBDA p : ~MapHas(players, p.id)),
                      !.playerToMatch = IndexSetAll(@, players, matchId),
                      !.matches = @ \cup {matchId},
                      !.matchObj = [x \in (DOMAIN @) \cup {matchId} |->
                                       IF x = matchId THEN match ELSE @[x]],
                      !.nextMatchId = @ + 1]
            S2 == emitAll(S1, [i \in 1..Len(players) |->
                      Ev("match_found", ToSocket(players[i].socketId),
                         [matchId |-> matchId, players |-> roster])])
        IN  schedule(S2, "start", matchId, t + START_DELAY)

\* ---------------------------------------------------------------- createMatch
createMatch(S, t) ==
    IF Len(S.queue) < MATCH_SIZE THEN S
    ELSE
        LET matchId == S.nextMatchId
            players == SubSeq(S.queue, 1, MATCH_SIZE)
            match == [id |-> matchId, players |-> players, status |-> "waiting",
                      startTime |-> Null, endTime |-> Null,
                      duration |-> MATCH_DURATION, winner |-> Null]
            roster == [i \in 1..Len(players) |->
                          [id |-> players[i].id, username |-> players[i].username]]
            S1 == [S EXCEPT
                      !.queue = SelectSeq(@, LAMBDA p : ~MapHas(players, p.id)),
                      !.playerQueue = @ \ MapKeys(players),
                      !.playerToMatch = IndexSetAll(@, players, matchId),
                      !.matches = @ \cup {matchId},
                      !.matchObj = [x \in (DOMAIN @) \cup {matchId} |->
                                       IF x = matchId THEN match ELSE @[x]],
                      !.nextMatchId = @ + 1]
            S2 == emitAll(S1, [i \in 1..Len(players) |->
                      Ev("match_found", ToSocket(players[i].socketId),
                         [matchId |-> matchId, players |-> roster])])
        IN  schedule(S2, "start", matchId, t + START_DELAY)

\* ------------------------------------------------------------ handleJoinQueue
\* handleJoinQueue that acknowledges the join after the attempt to create a match.
handleJoinQueue_LateAck(S, socket, userId, username, t) ==
    IF userId \in DOMAIN S.playerToMatch
    THEN emit(S, Ev("error", ToSocket(socket), [message |-> "Already in a match"]))
    ELSE IF userId \in S.playerQueue
    THEN emit(S, Ev("error", ToSocket(socket), [message |-> "Already in queue"]))
    ELSE
        LET player == [id |-> userId, socketId |-> socket, username |-> username,
                       taps |-> 0, isReady |-> FALSE, lastTapTimestamp |-> 0,
                       validatedTaps |-> 0]
            S1 == [S EXCEPT !.queue = MapSet(@, player),
                            !.playerQueue = @ \cup {userId}]
            S2 == IF Len(S1.queue) >= MATCH_SIZE THEN createMatch(S1, t) ELSE S1
        IN  emit(S2, Ev("queue_joined", ToSocket(socket), [position |-> Len(S1.queue)]))

\* handleJoinQueue without the playerQueue check.
handleJoinQueue_NoQueueCheck(S, socket, userId, username, t) ==
    IF userId \in DOMAIN S.playerToMatch
    THEN emit(S, Ev("error", ToSocket(socket), [message |-> "Already in a match"]))
    ELSE
        LET player == [id |-> userId, socketId |-> socket, username |-> username,
                       taps |-> 0, isReady |-> FALSE, lastTapTimestamp |-> 0,
                       validatedTaps |-> 0]
            S1 == [S EXCEPT !.queue = MapSet(@, player),
                            !.playerQueue = @ \cup {userId}]
            S2 == emit(S1, Ev("queue_joined", ToSocket(socket),
                              [position |-> Len(S1.queue)]))
        IN  IF Len(S2.queue) >= MATCH_SIZE THEN createMatch(S2, t) ELSE S2

\* handleJoinQueue without the playerToMatch check.
handleJoinQueue_NoMatchCheck(S, socket, userId, username, t) ==
    IF userId \in S.playerQueue
    THEN emit(S, Ev("error", ToSocket(socket), [message |-> "Already in queue"]))
    ELSE
        LET player == [id |-> userId, socketId |-> socket, username |-> username,
                       taps |-> 0, isReady |-> FALSE, lastTapTimestamp |-> 0,
                       validatedTaps |-> 0]
            S1 == [S EXCEPT !.queue = MapSet(@, player),
                            !.playerQueue = @ \cup {userId}]
            S2 == emit(S1, Ev("queue_joined", ToSocket(socket),
                              [position |-> Len(S1.queue)]))
        IN  IF Len(S2.queue) >= MATCH_SIZE THEN createMatch(S2, t) ELSE S2

\* handleJoinQueue that pairs only once the Queue holds more than MATCH_SIZE.
handleJoinQueue_PairsLate(S, socket, userId, username, t) ==
    IF userId \in DOMAIN S.playerToMatch
    THEN emit(S, Ev("error", ToSocket(socket), [message |-> "Already in a match"]))
    ELSE IF userId \in S.playerQueue
    THEN emit(S, Ev("error", ToSocket(socket), [message |-> "Already in queue"]))
    ELSE
        LET player == [id |-> userId, socketId |-> socket, username |-> username,
                       taps |-> 0, isReady |-> FALSE, lastTapTimestamp |-> 0,
                       validatedTaps |-> 0]
            S1 == [S EXCEPT !.queue = MapSet(@, player),
                            !.playerQueue = @ \cup {userId}]
            S2 == emit(S1, Ev("queue_joined", ToSocket(socket),
                              [position |-> Len(S1.queue)]))
        IN  IF Len(S2.queue) > MATCH_SIZE THEN createMatch(S2, t) ELSE S2

handleJoinQueue(S, socket, userId, username, t) ==
    IF userId \in DOMAIN S.playerToMatch
    THEN emit(S, Ev("error", ToSocket(socket), [message |-> "Already in a match"]))
    ELSE IF userId \in S.playerQueue
    THEN emit(S, Ev("error", ToSocket(socket), [message |-> "Already in queue"]))
    ELSE
        LET player == [id |-> userId, socketId |-> socket, username |-> username,
                       taps |-> 0, isReady |-> FALSE, lastTapTimestamp |-> 0,
                       validatedTaps |-> 0]
            S1 == [S EXCEPT !.queue = MapSet(@, player),
                            !.playerQueue = @ \cup {userId}]
            S2 == emit(S1, Ev("queue_joined", ToSocket(socket),
                              [position |-> Len(S1.queue)]))
        IN  IF Len(S2.queue) >= MATCH_SIZE THEN createMatch(S2, t) ELSE S2

\* ----------------------------------------------------------- handleLeaveQueue
\* handleLeaveQueue that leaves the player in playerQueue.
handleLeaveQueue_KeepsIndex(S, socket, userId) ==
    IF userId \notin S.playerQueue
    THEN emit(S, Ev("error", ToSocket(socket), [message |-> "Not in queue"]))
    ELSE
        LET S1 == [S EXCEPT !.queue = MapDelete(@, userId)]
        IN  emit(S1, Ev("queue_left", ToSocket(socket), [none |-> TRUE]))

\* handleLeaveQueue that leaves the Player entry in the Queue.
handleLeaveQueue_KeepsEntry(S, socket, userId) ==
    IF userId \notin S.playerQueue
    THEN emit(S, Ev("error", ToSocket(socket), [message |-> "Not in queue"]))
    ELSE
        LET S1 == [S EXCEPT !.playerQueue = @ \ {userId}]
        IN  emit(S1, Ev("queue_left", ToSocket(socket), [none |-> TRUE]))

handleLeaveQueue(S, socket, userId) ==
    IF userId \notin S.playerQueue
    THEN emit(S, Ev("error", ToSocket(socket), [message |-> "Not in queue"]))
    ELSE
        LET S1 == [S EXCEPT !.queue = MapDelete(@, userId),
                            !.playerQueue = @ \ {userId}]
        IN  emit(S1, Ev("queue_left", ToSocket(socket), [none |-> TRUE]))

\* ---------------------------------------------------------- handlePlayerReady
\* handlePlayerReady that reports a player outside the roster to the whole roster.
handlePlayerReady_ErrorToRoster(S, socket, userId, matchId, t) ==
    IF matchId \notin S.matches
    THEN emit(S, Ev("error", ToSocket(socket), [message |-> "Match not found"]))
    ELSE IF ~MapHas(S.matchObj[matchId].players, userId)
    THEN emitAll(emit(S, Ev("error", ToSocket(socket), [message |-> "Player not in match"])),
                 [i \in 1..Len(S.matchObj[matchId].players) |->
                     Ev("error", ToSocket(S.matchObj[matchId].players[i].socketId),
                        [message |-> "Player not in match"])])
    ELSE
        LET old == S.matchObj[matchId]
            player == [MapGet(old.players, userId) EXCEPT !.isReady = TRUE]
            match == [old EXCEPT !.players = MapSet(@, player)]
            S1 == [S EXCEPT !.matchObj[matchId] = match]
            allReady == \A i \in 1..Len(match.players) : match.players[i].isReady
        IN  IF allReady /\ match.status = "waiting" THEN startMatch(S1, matchId, t) ELSE S1

\* handlePlayerReady that starts the match whenever every player is ready.
handlePlayerReady_AnyStatus(S, socket, userId, matchId, t) ==
    IF matchId \notin S.matches
    THEN emit(S, Ev("error", ToSocket(socket), [message |-> "Match not found"]))
    ELSE IF ~MapHas(S.matchObj[matchId].players, userId)
    THEN emit(S, Ev("error", ToSocket(socket), [message |-> "Player not in match"]))
    ELSE
        LET old == S.matchObj[matchId]
            player == [MapGet(old.players, userId) EXCEPT !.isReady = TRUE]
            match == [old EXCEPT !.players = MapSet(@, player)]
            S1 == [S EXCEPT !.matchObj[matchId] = match]
            allReady == \A i \in 1..Len(match.players) : match.players[i].isReady
        IN  IF allReady THEN startMatch(S1, matchId, t) ELSE S1

handlePlayerReady(S, socket, userId, matchId, t) ==
    IF matchId \notin S.matches
    THEN emit(S, Ev("error", ToSocket(socket), [message |-> "Match not found"]))
    ELSE IF ~MapHas(S.matchObj[matchId].players, userId)
    THEN emit(S, Ev("error", ToSocket(socket), [message |-> "Player not in match"]))
    ELSE
        LET old == S.matchObj[matchId]
            player == [MapGet(old.players, userId) EXCEPT !.isReady = TRUE]
            match == [old EXCEPT !.players = MapSet(@, player)]
            S1 == [S EXCEPT !.matchObj[matchId] = match]
            allReady == \A i \in 1..Len(match.players) : match.players[i].isReady
        IN  IF allReady /\ match.status = "waiting" THEN startMatch(S1, matchId, t) ELSE S1

\* ------------------------------------------------------------------ handleTap
\* The part of handleTap after its three guards: validation, count, events.
tapValidated(S, socket, userId, matchId, timestamp, t) ==
    LET old == S.matchObj[matchId]
        v == validateTap(MapGet(old.players, userId), timestamp, t)
        \* validateTap works on the Player object of the roster, in place
        S0 == [S EXCEPT !.matchObj[matchId].players = MapSet(@, v.player)]
    IN  IF ~v.ok
        THEN emit(S0, Ev("error", ToSocket(socket), [message |-> "Invalid tap detected"]))
        ELSE
            LET player == [v.player EXCEPT !.validatedTaps = @ + 1, !.taps = @ + 1]
                S1 == [S0 EXCEPT !.matchObj[matchId].players = MapSet(@, player)]
                S2 == emit(S1, Ev("player_tapped", ToRoom(matchId),
                                  [playerId |-> userId, username |-> player.username,
                                   tapCount |-> player.validatedTaps]))
            IN  emit(S2, Ev("tap_confirmed", ToSocket(socket),
                            [tapCount |-> player.validatedTaps]))

\* handleTap without the status guard.
handleTap_NoStatusCheck(S, socket, userId, matchId, timestamp, t) ==
    IF matchId \notin S.matches
    THEN emit(S, Ev("error", ToSocket(socket), [message |-> "Match not found"]))
    ELSE IF ~MapHas(S.matchObj[matchId].players, userId)
    THEN emit(S, Ev("error", ToSocket(socket), [message |-> "Player not in match"]))
    ELSE tapValidated(S, socket, userId, matchId, timestamp, t)

\* handleTap whose status guard refuses finished matches only.
handleTap_WaitingAllowed(S, socket, userId, matchId, timestamp, t) ==
    IF matchId \notin S.matches
    THEN emit(S, Ev("error", ToSocket(socket), [message |-> "Match not found"]))
    ELSE IF S.matchObj[matchId].status = "finished"
    THEN emit(S, Ev("error", ToSocket(socket), [message |-> "Match not active"]))
    ELSE IF ~MapHas(S.matchObj[matchId].players, userId)
    THEN emit(S, Ev("error", ToSocket(socket), [message |-> "Player not in match"]))
    ELSE tapValidated(S, socket, userId, matchId, timestamp, t)

handleTap(S, socket, userId, matchId, timestamp, t) ==
    IF matchId \notin S.matches
    THEN emit(S, Ev("error", ToSocket(socket), [message |-> "Match not found"]))
    ELSE IF S.matchObj[matchId].status # "active"
    THEN emit(S, Ev("error", ToSocket(socket), [message |-> "Match not active"]))
    ELSE IF ~MapHas(S.matchObj[matchId].players, userId)
    THEN emit(S, Ev("error", ToSocket(socket), [message |-> "Player not in match"]))
    ELSE tapValidated(S, socket, userId, matchId, timestamp, t)

\* ------------------------------------------------------------------- endMatch
\* The winner loop keeping the last player with the greatest count.
RECURSIVE pickWinner_LastWins(_, _, _)
pickWinner_LastWins(players, maxTaps, winner) ==
    IF players = << >> THEN winner
    ELSE IF Head(players).validatedTaps >= maxTaps
         THEN pickWinner_LastWins(Tail(players), Head(players).validatedTaps,
                                  Some(Head(players).id))
         ELSE pickWinner_LastWins(Tail(players), maxTaps, winner)

\* The forEach that keeps the first player with the strictly greatest count.
RECURSIVE pickWinner(_, _, _)
pickWinner(players, maxTaps, winner) ==
    IF players = << >> THEN winner
    ELSE IF Head(players).validatedTaps > maxTaps
         THEN pickWinner(Tail(players), Head(players).validatedTaps, Some(Head(players).id))
         ELSE pickWinner(Tail(players), maxTaps, winner)

\* The sort placing a result before those of equal taps (not stable).
RECURSIVE insertByTaps_Unstable(_, _)
insertByTaps_Unstable(sorted, r) ==
    IF sorted = << >> THEN <<r>>
    ELSE IF Head(sorted).taps <= r.taps THEN <<r>> \o sorted
         ELSE <<Head(sorted)>> \o insertByTaps_Unstable(Tail(sorted), r)

\* Array.prototype.sort((a, b) => b.taps - a.taps): stable, descending taps.
RECURSIVE insertByTaps(_, _)
insertByTaps(sorted, r) ==
    IF sorted = << >> THEN <<r>>
    ELSE IF Head(sorted).taps < r.taps THEN <<r>> \o sorted
         ELSE <<Head(sorted)>> \o insertByTaps(Tail(sorted), r)

RECURSIVE sortByTaps(_, _)
sortByTaps(sorted, rest) ==
    IF rest = << >> THEN sorted ELSE sortByTaps(insertByTaps(sorted, Head(rest)), Tail(rest))

\* endMatch that keeps the winner of an earlier run instead of picking one.
endMatch_KeepsWinner(S, matchId, t) ==
    IF matchId \notin S.matches THEN S
    ELSE
        LET old == S.matchObj[matchId]
            winner == IF old.winner # Null THEN old.winner
                      ELSE pickWinner(old.players, -1, Null)
            match == [old EXCEPT !.status = "finished", !.endTime = Some(t),
                                 !.winner = IF winner # Null THEN winner ELSE @]
            results == sortByTaps(<< >>, [i \in 1..Len(match.players) |->
                          [id |-> match.players[i].id,
                           username |-> match.players[i].username,
                           taps |-> match.players[i].validatedTaps,
                           isWinner |-> (Some(match.players[i].id) = match.winner)]])
            S1 == [S EXCEPT !.matchObj[matchId] = match]
            S2 == emitAll(S1, [i \in 1..Len(match.players) |->
                      Ev("match_ended", ToSocket(match.players[i].socketId),
                         [matchId |-> matchId, results |-> results,
                          winnerId |-> match.winner])])
        IN  schedule(S2, "cleanup", matchId, t + CLEANUP_DELAY)

endMatch(S, matchId, t) ==
    IF matchId \notin S.matches THEN S
    ELSE
        LET old == S.matchObj[matchId]
            winner == pickWinner(old.players, -1, Null)
            match == [old EXCEPT !.status = "finished", !.endTime = Some(t),
                                 !.winner = IF winner # Null THEN winner ELSE @]
            results == sortByTaps(<< >>, [i \in 1..Len(match.players) |->
                          [id |-> match.players[i].id,
                           username |-> match.players[i].username,
                           taps |-> match.players[i].validatedTaps,
                           isWinner |-> (Some(match.players[i].id) = match.winner)]])
            S1 == [S EXCEPT !.matchObj[matchId] = match]
            S2 == emitAll(S1, [i \in 1..Len(match.players) |->
                      Ev("match_ended", ToSocket(match.players[i].socketId),
                         [matchId |-> matchId, results |-> results,
                          winnerId |-> match.winner])])
        IN  schedule(S2, "cleanup", matchId, t + CLEANUP_DELAY)

\* The cleanup closure that clears the index entries and keeps the match.
cleanup_KeepsMatch(S, matchId) ==
    [S EXCEPT !.playerToMatch = IndexDeleteAll(@, S.matchObj[matchId].players)]

\* The setTimeout callback of endMatch; it closes over the match object.
cleanup(S, matchId) ==
    [S EXCEPT !.matches = @ \ {matchId},
              !.playerToMatch = IndexDeleteAll(@, S.matchObj[matchId].players)]

\* ----------------------------------------------------------- handleDisconnect
\* The inner loop of handleDisconnect ending the match at every disconnect.
RECURSIVE disconnectPlayers_EndsMatch(_, _, _, _, _)
disconnectPlayers_EndsMatch(S, matchId, entries, socket, t) ==
    IF entries = << >> THEN S
    ELSE IF Head(entries).socketId # socket
    THEN disconnectPlayers_EndsMatch(S, matchId, Tail(entries), socket, t)
    ELSE
        LET playerId == Head(entries).id
            S1 == [S EXCEPT !.matchObj[matchId].players = MapDelete(@, playerId),
                            !.playerToMatch = IndexDelete(@, playerId)]
            left == S1.matchObj[matchId].players
            S2 == emitAll(S1, [i \in 1..Len(left) |->
                      Ev("player_disconnected", ToSocket(left[i].socketId),
                         [playerId |-> playerId])])
            S3 == endMatch(S2, matchId, t)
        IN  disconnectPlayers_EndsMatch(S3, matchId, Tail(entries), socket, t)

RECURSIVE disconnectPlayers(_, _, _, _, _)
disconnectPlayers(S, matchId, entries, socket, t) ==
    IF entries = << >> THEN S
    ELSE IF Head(entries).socketId # socket
    THEN disconnectPlayers(S, matchId, Tail(entries), socket, t)
    ELSE
        LET playerId == Head(entries).id
            S1 == [S EXCEPT !.matchObj[matchId].players = MapDelete(@, playerId),
                            !.playerToMatch = IndexDelete(@, playerId)]
            left == S1.matchObj[matchId].players
            S2 == emitAll(S1, [i \in 1..Len(left) |->
                      Ev("player_disconnected", ToSocket(left[i].socketId),
                         [playerId |-> playerId])])
            S3 == IF Len(left) = 0 THEN endMatch(S2, matchId, t) ELSE S2
        IN  disconnectPlayers(S3, matchId, Tail(entries), socket, t)

RECURSIVE disconnectMatches(_, _, _, _)
disconnectMatches(S, ids, socket, t) ==
    IF ids = {} THEN S
    ELSE
        LET matchId == CHOOSE m \in ids : \A x \in ids : m <= x
        IN  disconnectMatches(
                disconnectPlayers(S, matchId, S.matchObj[matchId].players, socket, t),
                ids \ {matchId}, socket, t)

\* handleDisconnect that ends every match it finds with an empty roster.
RECURSIVE endEmptyMatches(_, _, _)
endEmptyMatches(S, ids, t) ==
    IF ids = {} THEN S
    ELSE
        LET matchId == CHOOSE m \in ids : \A x \in ids : m <= x
        IN  endEmptyMatches(
                IF S.matchObj[matchId].players = << >> THEN endMatch(S, matchId, t) ELSE S,
                ids \ {matchId}, t)

handleDisconnect_EndsEmpty(S, socket, t) ==
    LET gone == {S.queue[i].id : i \in {j \in 1..Len(S.queue) : S.queue[j].socketId = socket}}
        S1 == [S EXCEPT !.queue = SelectSeq(@, LAMBDA p : p.socketId # socket),
                        !.playerQueue = @ \ gone]
        S2 == disconnectMatches(S1, S1.matches, socket, t)
    IN  endEmptyMatches(S2, S2.matches, t)

\* handleDisconnect that takes the connection's players out of the Queue and
\* leaves their ids in playerQueue.
handleDisconnect_KeepsQueueIndex(S, socket, t) ==
    LET S1 == [S EXCEPT !.queue = SelectSeq(@, LAMBDA p : p.socketId # socket)]
    IN  disconnectMatches(S1, S1.matches, socket, t)

handleDisconnect(S, socket, t) ==
    LET gone == {S.queue[i].id : i \in {j \in 1..Len(S.queue) : S.queue[j].socketId = socket}}
        S1 == [S EXCEPT !.queue = SelectSeq(@, LAMBDA p : p.socketId # socket),
                        !.playerQueue = @ \ gone]
    IN  disconnectMatches(S1, S1.matches, socket, t)

\* -------------------------------------------------------------------- actions
UserOf(socket) == SocketUsers[((socket - 1) % Len(SocketUsers)) + 1]

RECURSIVE SumTaps(_)
SumTaps(players) ==
    IF players = << >> THEN 0 ELSE Head(players).validatedTaps + SumTaps(Tail(players))

RECURSIVE SumMatches(_, _)
SumMatches(S, ids) ==
    IF ids = {} THEN 0
    ELSE LET m == CHOOSE x \in ids : TRUE
         IN  SumTaps(S.matchObj[m].players) + SumMatches(S, ids \ {m})

\* The accepted taps held by the live matches (the bound of the Tap action).
TotalTaps(S) == SumMatches(S, S.matches)

NoProbe == [lastTapTimestamp |-> 0, currentTime |-> 0, timestamp |-> 0]

\* The matchmaker as constructed: empty Maps, no connection, no timer.
Init ==
    /\ now = Epoch
    /\ connected = {}
    /\ nextSocket = 1
    /\ queue = << >>
    /\ playerQueue = {}
    /\ playerToMatch = << >>
    /\ matches = {}
    /\ matchObj = << >>
    /\ nextMatchId = 1
    /\ timers = << >>
    /\ emitted = << >>
    /\ ticks = 0
    /\ probe = NoProbe
    /\ verdict = << >>
    /\ wallets = << >>
    /\ transactions = << >>
    /\ response = << >>

Deadlines == {timers[i].at : i \in 1..Len(timers)}
NextDeadline == CHOOSE d \in Deadlines : \A x \in Deadlines : d <= x

\* The event loop runs every expired timer before it reads the sockets again:
\* a socket event is handled only while no timer is due.
NoTimerDue == \A d \in Deadlines : d > now

\* io.on('connection'): a new socket with a fresh id; the handlers are bound.
Connect ==
    /\ NoTimerDue
    /\ nextSocket <= MaxSockets
    /\ connected' = connected \cup {nextSocket}
    /\ nextSocket' = nextSocket + 1
    /\ emitted' = << >>
    /\ UNCHANGED <<now, queue, playerQueue, playerToMatch, matches, matchObj,
                   nextMatchId, timers, ticks, probe, verdict,
                   wallets, transactions, response>>

JoinQueue(socket, userId, username) ==
    /\ NoTimerDue
    /\ socket \in connected
    /\ LET S == handleJoinQueue(Cur, socket, userId, username, now)
       IN  /\ S.nextMatchId <= MaxMatches + 1
           /\ Commit(S)
    /\ UNCHANGED <<now, connected, nextSocket, ticks, probe, verdict,
                   wallets, transactions, response>>

LeaveQueue(socket, userId) ==
    /\ NoTimerDue
    /\ socket \in connected
    /\ Commit(handleLeaveQueue(Cur, socket, userId))
    /\ UNCHANGED <<now, connected, nextSocket, ticks, probe, verdict,
                   wallets, transactions, response>>

PlayerReady(socket, userId, matchId) ==
    /\ NoTimerDue
    /\ socket \in connected
    /\ Commit(handlePlayerReady(Cur, socket, userId, matchId, now))
    /\ UNCHANGED <<now, connected, nextSocket, ticks, probe, verdict,
                   wallets, transactions, response>>

\* budget bounds the accepted taps of a run; a rejected tap is never held back.
Tap(socket, userId, matchId, timestamp, budget) ==
    /\ NoTimerDue
    /\ socket \in connected
    /\ LET S == handleTap(Cur, socket, userId, matchId, timestamp, now)
       IN  /\ TotalTaps(S) <= budget
           /\ Commit(S)
    /\ UNCHANGED <<now, connected, nextSocket, ticks, probe, verdict,
                   wallets, transactions, response>>

Disconnect(socket) ==
    /\ NoTimerDue
    /\ socket \in connected
    /\ connected' = connected \ {socket}
    /\ Commit(handleDisconnect(Cur, socket, now))
    /\ UNCHANGED <<now, nextSocket, ticks, probe, verdict,
                   wallets, transactions, response>>

\* A due setTimeout callback runs: startMatch, endMatch or the cleanup closure.
FireTimer(i) ==
    /\ timers[i].at <= now
    /\ LET tm == timers[i]
           S == [Cur EXCEPT !.timers = RemoveAt(@, i)]
       IN  Commit(CASE tm.kind = "start" -> startMatch(S, tm.match, now)
                    [] tm.kind = "end" -> endMatch(S, tm.match, now)
                    [] tm.kind = "cleanup" -> cleanup(S, tm.match))
    /\ UNCHANGED <<now, connected, nextSocket, ticks, probe, verdict,
                   wallets, transactions, response>>

\* The clock moves on by TickMs during a match, never past a pending deadline.
Tick ==
    /\ ticks < RunTicks
    /\ \E m \in matches : matchObj[m].status = "active" /\ matchObj[m].players # << >>
    /\ \A d \in Deadlines : now + TickMs <= d
    /\ now' = now + TickMs
    /\ ticks' = ticks + 1
    /\ emitted' = << >>
    /\ UNCHANGED <<connected, nextSocket, queue, playerQueue, playerToMatch, matches,
                   matchObj, nextMatchId, timers, probe, verdict,
                   wallets, transactions, response>>

\* The clock moves on to the next pending deadline.
AdvanceToTimer ==
    /\ Deadlines # {}
    /\ now < NextDeadline
    /\ now' = NextDeadline
    /\ emitted' = << >>
    /\ UNCHANGED <<connected, nextSocket, queue, playerQueue, playerToMatch, matches,
                   matchObj, nextMatchId, timers, ticks, probe, verdict,
                   wallets, transactions, response>>

\* The matchmaker under authenticated clients: a connection joins the queue under
\* its own user id; every other request may name any user id and any match id.
Next ==
    \/ Connect
    \/ \E s \in SocketIds, n \in Usernames : JoinQueue(s, UserOf(s), n)
    \/ \E s \in SocketIds, u \in UserIds : LeaveQueue(s, u)
    \/ \E s \in SocketIds, u \in UserIds, m \in MatchIds : PlayerReady(s, u, m)
    \/ \E s \in SocketIds, u \in UserIds, m \in MatchIds, d \in SkewOffsets :
           Tap(s, u, m, now + d, MaxTaps)
    \/ \E s \in SocketIds : Disconnect(s)
    \/ \E i \in DOMAIN timers : FireTimer(i)
    \/ AdvanceToTimer

Spec == Init /\ [][Next]_vars

\* The event loop runs a setTimeout callback once its delay has elapsed, and the
\* clock reaches every pending deadline.
TimersFire ==
    /\ WF_vars(AdvanceToTimer)
    /\ WF_vars(\E i \in DOMAIN timers : FireTimer(i))


\* ------------------------------------------------- one match, played at length
\* The state after two connections joined the queue at Epoch and the deferred
\* start of their match fired START_DELAY later.
Empty ==
    [queue |-> << >>, playerQueue |-> {}, playerToMatch |-> << >>, matches |-> {},
     matchObj |-> << >>, nextMatchId |-> 1, timers |-> << >>, emitted |-> << >>]

Started ==
    LET n == CHOOSE x \in Usernames : TRUE
        S1 == handleJoinQueue(Empty, 1, UserOf(1), n, Epoch)
        S2 == handleJoinQueue(S1, 2, UserOf(2), n, Epoch)
    IN  startMatch([S2 EXCEPT !.timers = RemoveAt(@, 1), !.emitted = << >>],
                   S2.timers[1].match, S2.timers[1].at)

InitTaps ==
    /\ now = Epoch + START_DELAY
    /\ connected = {1, 2}
    /\ nextSocket = 3
    /\ queue = Started.queue
    /\ playerQueue = Started.playerQueue
    /\ playerToMatch = Started.playerToMatch
    /\ matches = Started.matches
    /\ matchObj = Started.matchObj
    /\ nextMatchId = Started.nextMatchId
    /\ timers = Started.timers
    /\ emitted = Started.emitted
    /\ ticks = 0
    /\ probe = NoProbe
    /\ verdict = << >>
    /\ wallets = << >>
    /\ transactions = << >>
    /\ response = << >>

NextTaps ==
    \/ \E s \in {1, 2}, u \in UserIds, m \in MatchIds, d \in SkewOffsets :
           Tap(s, u, m, now + d, RunTaps)
    \/ Tick
    \/ \E s \in {1, 2} : Disconnect(s)
    \/ \E i \in DOMAIN timers : FireTimer(i)
    \/ AdvanceToTimer

SpecTaps == InitTaps /\ [][NextTaps]_vars

\* ------------------------------------------- one match, from creation to cleanup
\* The state after two connections joined the queue at Epoch: their match is
\* waiting and its deferred start is pending.
Created ==
    LET n == CHOOSE x \in Usernames : TRUE
        S1 == handleJoinQueue(Empty, 1, UserOf(1), n, Epoch)
    IN  handleJoinQueue([S1 EXCEPT !.emitted = << >>], 2, UserOf(2), n, Epoch)

InitLive ==
    /\ now = Epoch
    /\ connected = {1, 2}
    /\ nextSocket = 3
    /\ queue = Created.queue
    /\ playerQueue = Created.playerQueue
    /\ playerToMatch = Created.playerToMatch
    /\ matches = Created.matches
    /\ matchObj = Created.matchObj
    /\ nextMatchId = Created.nextMatchId
    /\ timers = Created.timers
    /\ emitted = Created.emitted
    /\ ticks = 0
    /\ probe = NoProbe
    /\ verdict = << >>
    /\ wallets = << >>
    /\ transactions = << >>
    /\ response = << >>

NextLive ==
    \/ \E s \in {1, 2}, u \in UserIds, m \in MatchIds : PlayerReady(s, u, m)
    \/ \E s \in {1, 2}, u \in UserIds, m \in MatchIds, d \in SkewOffsets :
           Tap(s, u, m, now + d, MaxTaps)
    \/ \E s \in {1, 2} : Disconnect(s)
    \/ \E i \in DOMAIN timers : FireTimer(i)
    \/ AdvanceToTimer

SpecLive == InitLive /\ [][NextLive]_vars /\ TimersFire

\* ------------------------------------------------- clients that name any user
\* join_queue carries the user id in its payload and the handler takes it as
\* sent: a connection may queue under any id.
NextOpen ==
    \/ Connect
    \/ \E s \in SocketIds, u \in UserIds, n \in Usernames : JoinQueue(s, u, n)
    \/ \E s \in SocketIds, u \in UserIds : LeaveQueue(s, u)
    \/ \E s \in SocketIds : Disconnect(s)
    \/ \E i \in DOMAIN timers : FireTimer(i)
    \/ AdvanceToTimer

SpecOpen == Init /\ [][NextOpen]_vars

\* ------------------------------------------------------------ routes/wallet.ts
\* The values a JSON body can give to amount, and those the arithmetic of the
\* handlers makes of them: a number, NaN, a string (its characters) or undefined.
JsNum(n) == [t |-> "number", v |-> n, s |-> << >>]
JsStr(cs) == [t |-> "string", v |-> 0, s |-> cs]
NaN == [t |-> "NaN", v |-> 0, s |-> << >>]
JsUndefined == [t |-> "undefined", v |-> 0, s |-> << >>]

Digits == <<"0", "1", "2", "3", "4", "5", "6", "7", "8", "9">>
IsDigit(c) == \E i \in 1..10 : Digits[i] = c
DigitOf(c) == (CHOOSE i \in 1..10 : Digits[i] = c) - 1

\* UTF-16 code units of the characters that occur.
CharCode(c) ==
    CASE c = "-" -> 45
      [] IsDigit(c) -> 48 + DigitOf(c)
      [] c = "N" -> 78
      [] c = "a" -> 97
      [] c = "d" -> 100
      [] c = "e" -> 101
      [] c = "f" -> 102
      [] c = "i" -> 105
      [] c = "n" -> 110
      [] c = "u" -> 117

RECURSIVE ParseDigits(_, _)
ParseDigits(cs, acc) ==
    IF cs = << >> THEN acc ELSE ParseDigits(Tail(cs), 10 * acc + DigitOf(Head(cs)))

AllDigits(cs) == cs # << >> /\ \A i \in 1..Len(cs) : IsDigit(cs[i])

\* Number(string) on these characters: '' is 0, decimal digits with an optional
\* minus sign are that integer, anything else is NaN.
StringToNumber(cs) ==
    IF cs = << >> THEN JsNum(0)
    ELSE IF AllDigits(cs) THEN JsNum(ParseDigits(cs, 0))
    ELSE IF Head(cs) = "-" /\ AllDigits(Tail(cs)) THEN JsNum(0 - ParseDigits(Tail(cs), 0))
    ELSE NaN

ToNumber(x) ==
    CASE x.t = "number" -> x
      [] x.t = "NaN" -> NaN
      [] x.t = "string" -> StringToNumber(x.s)
      [] x.t = "undefined" -> NaN

RECURSIVE NaturalToString(_)
NaturalToString(n) ==
    IF n < 10 THEN <<Digits[n + 1]>>
    ELSE NaturalToString(n \div 10) \o <<Digits[(n % 10) + 1]>>

JsToString(x) ==
    CASE x.t = "number" ->
             IF x.v < 0 THEN <<"-">> \o NaturalToString(0 - x.v) ELSE NaturalToString(x.v)
      [] x.t = "NaN" -> <<"N", "a", "N">>
      [] x.t = "string" -> x.s
      [] x.t = "undefined" -> <<"u", "n", "d", "e", "f", "i", "n", "e", "d">>

\* !x is false
Truthy(x) ==
    CASE x.t = "number" -> x.v # 0
      [] x.t = "NaN" -> FALSE
      [] x.t = "string" -> x.s # << >>
      [] x.t = "undefined" -> FALSE

\* Two strings compare by code units.
RECURSIVE StringLess(_, _)
StringLess(a, b) ==
    IF b = << >> THEN FALSE
    ELSE IF a = << >> THEN TRUE
    ELSE IF Head(a) = Head(b) THEN StringLess(Tail(a), Tail(b))
    ELSE CharCode(Head(a)) < CharCode(Head(b))

\* x < y, x <= y, x > y: by code units when both are strings, else as numbers,
\* and false when either number is NaN.
JsLess(x, y) ==
    IF x.t = "string" /\ y.t = "string" THEN StringLess(x.s, y.s)
    ELSE LET a == ToNumber(x)
             b == ToNumber(y)
         IN  a.t = "number" /\ b.t = "number" /\ a.v < b.v

JsLessEq(x, y) ==
    IF x.t = "string" /\ y.t = "string" THEN ~StringLess(y.s, x.s)
    ELSE LET a == ToNumber(x)
             b == ToNumber(y)
         IN  a.t = "number" /\ b.t = "number" /\ a.v <= b.v

JsGreater(x, y) == JsLess(y, x)

\* x + y concatenates when either is a string; x - y is always numeric.
JsPlus(x, y) ==
    IF x.t = "string" \/ y.t = "string" THEN JsStr(JsToString(x) \o JsToString(y))
    ELSE LET a == ToNumber(x)
             b == ToNumber(y)
         IN  IF a.t = "number" /\ b.t = "number" THEN JsNum(a.v + b.v) ELSE NaN

JsMinus(x, y) ==
    LET a == ToNumber(x)
        b == ToNumber(y)
    IN  IF a.t = "number" /\ b.t = "number" THEN JsNum(a.v - b.v) ELSE NaN

\* The wallet state a handler works on.
CurWallet == [wallets |-> wallets, transactions |-> transactions, response |-> response]

respond(W, status, text, newBalance) ==
    [W EXCEPT !.response = Some([status |-> status, text |-> text, newBalance |-> newBalance])]

\* The Authorization header of a request: none, a token that does not verify,
\* a token without id, or the token of a user.
Tokens == {"none", "bad", "anonymous"} \cup UserIds

\* wallets.get(userId) || { userId, balance: 0 }
balanceOf(W, userId) == IF userId \in DOMAIN W.wallets THEN W.wallets[userId] ELSE JsNum(0)

\* authenticateJWT and the userId test at the head of each handler: the response
\* that refuses the request, or Null when it goes on.
refusal(W, token) ==
    IF token = "none" THEN Some(respond(W, 401, "No token provided", Null))
    ELSE IF token = "bad" THEN Some(respond(W, 403, "Invalid or expired token", Null))
    ELSE IF token = "anonymous" THEN Some(respond(W, 401, "User ID not found in token", Null))
    ELSE Null

\* POST /deposit
deposit(W, token, amount) ==
    IF refusal(W, token) # Null THEN refusal(W, token)[1]
    ELSE IF ~Truthy(amount) \/ JsLessEq(amount, JsNum(0))
    THEN respond(W, 400, "Invalid amount. Must be greater than 0.", Null)
    ELSE IF JsGreater(amount, JsNum(DepositLimit))
    THEN respond(W, 400, "Deposit amount exceeds maximum limit of $10,000", Null)
    ELSE
        LET balance == JsPlus(balanceOf(W, token), amount)
            W1 == [W EXCEPT !.wallets = IndexSet(@, token, balance),
                            !.transactions = Append(@,
                                [userId |-> token, type |-> "deposit", amount |-> amount,
                                 status |-> "completed",
                                 description |-> "Deposit via credit_card"])]
        IN  respond(W1, 201, "Deposit successful", Some(balance))

\* POST /withdrawal
withdrawal(W, token, amount) ==
    IF refusal(W, token) # Null THEN refusal(W, token)[1]
    ELSE IF ~Truthy(amount) \/ JsLessEq(amount, JsNum(0))
    THEN respond(W, 400, "Invalid amount. Must be greater than 0.", Null)
    ELSE IF JsLess(balanceOf(W, token), amount)
    THEN respond(W, 400, "Insufficient balance", Null)
    ELSE
        LET balance == JsMinus(balanceOf(W, token), amount)
            W1 == [W EXCEPT !.wallets = IndexSet(@, token, balance),
                            !.transactions = Append(@,
                                [userId |-> token, type |-> "withdrawal", amount |-> amount,
                                 status |-> "pending",
                                 description |-> "Withdrawal to bank_transfer"])]
        IN  respond(W1, 200, "Withdrawal initiated", Some(balance))

\* The amounts a request body may carry: none, numbers around the two limits,
\* and a string that is not a number.
Amounts ==
    {JsUndefined, JsNum(-1), JsNum(0), JsNum(1), JsNum(2), JsNum(DepositLimit),
     JsNum(DepositLimit + 1), JsStr(<<"a">>)}

CommitWallet(W) ==
    /\ Len(W.transactions) <= MaxTxns
    /\ wallets' = W.wallets
    /\ transactions' = W.transactions
    /\ response' = W.response
    /\ UNCHANGED <<now, connected, nextSocket, queue, playerQueue, playerToMatch,
                   matches, matchObj, nextMatchId, timers, emitted, ticks, probe, verdict>>

Deposit(token, amount) == CommitWallet(deposit(CurWallet, token, amount))

Withdrawal(token, amount) == CommitWallet(withdrawal(CurWallet, token, amount))

NextWallet ==
    \/ \E k \in Tokens, a \in Amounts : Deposit(k, a)
    \/ \E k \in Tokens, a \in Amounts : Withdrawal(k, a)

\* The wallet service as loaded: no wallet, no transaction.
SpecWallet == Init /\ [][NextWallet]_vars

\* ------------------------------------------------------ the validator alone
ProbeInputs ==
    {[lastTapTimestamp |-> l, currentTime |-> n, timestamp |-> n + d] :
        l \in 0..LastMax, n \in NowMin..NowMax, d \in (0 - TsSlack)..TsSlack}

ProbePlayer ==
    [id |-> "A", socketId |-> 1, username |-> "nick", taps |-> 0, isReady |-> FALSE,
     lastTapTimestamp |-> probe.lastTapTimestamp, validatedTaps |-> 0]

InitValidate ==
    /\ now = Epoch
    /\ connected = {}
    /\ nextSocket = 1
    /\ queue = << >>
    /\ playerQueue = {}
    /\ playerToMatch = << >>
    /\ matches = {}
    /\ matchObj = << >>
    /\ nextMatchId = 1
    /\ timers = << >>
    /\ emitted = << >>
    /\ ticks = 0
    /\ probe \in ProbeInputs
    /\ verdict = << >>
    /\ wallets = << >>
    /\ transactions = << >>
    /\ response = << >>

Validate ==
    /\ verdict = << >>
    /\ verdict' = <<validateTap(ProbePlayer, probe.timestamp, probe.currentTime)>>
    /\ UNCHANGED <<now, connected, nextSocket, queue, playerQueue, playerToMatch,
                   matches, matchObj, nextMatchId, timers, emitted, ticks, probe,
                   wallets, transactions, response>>

SpecValidate == InitValidate /\ [][Validate]_vars

\* ===================================================================== claims
HasError(es, text) ==
    \E i \in 1..Len(es) : es[i].ev = "error" /\ es[i].data.message = text

\* C1: in every reachable state no player id is both in playerQueue and in
\* playerToMatch.
C1_IndicesDisjoint == playerQueue \cap DOMAIN playerToMatch = {}

\* A player of a live match asked to join the queue and was refused.
C1_Witness ==
    /\ HasError(emitted, "Already in a match")
    /\ DOMAIN playerToMatch # {}
    /\ playerQueue = {}

\* C2: for every match of the match index, the keys of its players equal the
\* player ids that playerToMatch maps to it, and every playerToMatch entry points
\* to a match of the index.
C2_RosterEqualsIndex ==
    /\ \A m \in matches :
           MapKeys(matchObj[m].players) =
               {p \in DOMAIN playerToMatch : playerToMatch[p] = m}
    /\ \A p \in DOMAIN playerToMatch : playerToMatch[p] \in matches

\* C3 (its last clause): a match that is finished never changes status again,
\* whatever timers fire afterwards.
C3_FinishedIsFinal ==
    [][\A m \in matches \cap matches' :
           matchObj[m].status = "finished" => matchObj'[m].status = "finished"]_vars

StartedEvents(es, m) ==
    {i \in 1..Len(es) : es[i].ev = "match_started" /\ es[i].data.matchId = m}

\* C4: after the all-ready start no second match_started is emitted: no step
\* emits match_started for a match that is already active.
C4_NoSecondMatchStarted ==
    [][\A m \in matches :
           matchObj[m].status = "active" => StartedEvents(emitted', m) = {}]_vars

\* The match objects before and after a step, and the players they both hold.
Kept == DOMAIN matchObj \cap DOMAIN matchObj'
Before(m, i) == MapGet(matchObj[m].players, matchObj'[m].players[i].id)
After(m, i) == matchObj'[m].players[i]
StillIn(m, i) == MapHas(matchObj[m].players, matchObj'[m].players[i].id)

TappedEvents(es, m) ==
    {i \in 1..Len(es) : es[i].ev = "player_tapped" /\ es[i].to = ToRoom(m)}
ConfirmedEvents(es) == {i \in 1..Len(es) : es[i].ev = "tap_confirmed"}

\* C5: a match that has been finished (endMatch set its endTime) never has a
\* player whose validatedTaps grows in a later step, no player_tapped is emitted
\* for it, and every tap_confirmed of a step follows a player_tapped of a match
\* that has not been finished.
C5_NoTapAfterFinished ==
    [][/\ \A m \in DOMAIN matchObj :
              matchObj[m].endTime # Null =>
                  /\ TappedEvents(emitted', m) = {}
                  /\ m \in DOMAIN matchObj' =>
                         \A i \in 1..Len(matchObj'[m].players) :
                             /\ StillIn(m, i)
                             /\ After(m, i).validatedTaps <= Before(m, i).validatedTaps
       /\ \A i \in ConfirmedEvents(emitted') :
              /\ i > 1
              /\ emitted'[i - 1].ev = "player_tapped"
              /\ emitted'[i - 1].to.id \in DOMAIN matchObj
              /\ matchObj[emitted'[i - 1].to.id].endTime = Null]_vars

\* A tap was refused on a finished match that still holds its two players.
C5_Witness ==
    /\ HasError(emitted, "Match not active")
    /\ \E m \in matches :
           /\ matchObj[m].status = "finished"
           /\ matchObj[m].endTime # Null
           /\ Len(matchObj[m].players) = MATCH_SIZE

\* C6: in every reachable state a tap on an existing match that is not active
\* answers the sender with the error "Match not active" and changes nothing else,
\* whoever sends it and whatever timestamp it carries; and a step emits
\* player_tapped for a match only while that match is active.
C6_NotActiveRefused ==
    /\ [](\A s \in connected, u \in UserIds, m \in matches, d \in SkewOffsets :
              matchObj[m].status # "active" =>
                  handleTap(Cur, s, u, m, now + d, now) =
                      emit(Cur, Ev("error", ToSocket(s), [message |-> "Match not active"])))
    /\ [][\A m \in MatchIds :
              TappedEvents(emitted', m) # {} =>
                  /\ m \in matches /\ matchObj[m].status = "active"
                  /\ m \in matches' /\ matchObj'[m].status = "active"]_vars

\* A tap was refused on a waiting match that holds its two players.
C6_Witness ==
    /\ HasError(emitted, "Match not active")
    /\ \E m \in matches :
           /\ matchObj[m].status = "waiting"
           /\ Len(matchObj[m].players) = MATCH_SIZE

\* C7: a step that confirms a tap adds 1 to the validatedTaps of exactly one
\* player of one match, sets that player's lastTapTimestamp to the server's
\* clock, emits player_tapped and tap_confirmed with the new count and changes
\* nothing else; in every other step the validatedTaps of every player that
\* stays in its match is unchanged.
C7_AcceptedTapEffect ==
    [][IF ConfirmedEvents(emitted') # {}
       THEN \E m \in matches, s \in connected :
                \E i \in 1..Len(matchObj[m].players) :
                    LET p == matchObj[m].players[i]
                        c == p.validatedTaps + 1
                    IN  /\ matchObj' = [matchObj EXCEPT ![m].players[i] =
                               [p EXCEPT !.validatedTaps = c, !.taps = p.taps + 1,
                                         !.lastTapTimestamp = now]]
                        /\ emitted' =
                               <<Ev("player_tapped", ToRoom(m),
                                    [playerId |-> p.id, username |-> p.username,
                                     tapCount |-> c]),
                                 Ev("tap_confirmed", ToSocket(s), [tapCount |-> c])>>
                        /\ UNCHANGED <<now, connected, queue, playerQueue, playerToMatch,
                                       matches, nextMatchId, timers>>
       ELSE \A m \in Kept : \A i \in 1..Len(matchObj'[m].players) :
                /\ StillIn(m, i)
                /\ After(m, i).validatedTaps = Before(m, i).validatedTaps]_vars

\* The second tap of a player was just confirmed, after the clock moved on.
C7_Witness ==
    /\ ConfirmedEvents(emitted) # {}
    /\ \E m \in matches : \E i \in 1..Len(matchObj[m].players) :
           /\ matchObj[m].players[i].validatedTaps = 2
           /\ matchObj[m].players[i].lastTapTimestamp = now
           /\ now > Epoch + START_DELAY

\* C8: a step that answers a tap with "Invalid tap detected" emits this one
\* error to one socket and changes nothing else of the matchmaker.
C8_RejectedTapNoEffect ==
    [][HasError(emitted', "Invalid tap detected") =>
           /\ Len(emitted') = 1
           /\ emitted'[1].to.kind = "socket"
           /\ UNCHANGED <<now, connected, queue, playerQueue, playerToMatch, matches,
                          matchObj, nextMatchId, timers>>]_vars

\* A tap was rejected while every player of the match had tapped less than
\* 1000 / MAX_TAPS_PER_SECOND ms before.
C8_Witness ==
    /\ HasError(emitted, "Invalid tap detected")
    /\ \E m \in matches :
           /\ matchObj[m].status = "active"
           /\ Len(matchObj[m].players) = MATCH_SIZE
           /\ \A i \in 1..Len(matchObj[m].players) :
                  /\ matchObj[m].players[i].validatedTaps >= 1
                  /\ now > matchObj[m].players[i].lastTapTimestamp
                  /\ (now - matchObj[m].players[i].lastTapTimestamp)
                         * MAX_TAPS_PER_SECOND < 1000

\* C9: the validator accepts exactly when the client timestamp is within
\* TAP_VALIDATION_WINDOW of the server's clock, on either side and inclusive,
\* and at least 1000 / MAX_TAPS_PER_SECOND = 100 ms passed since the last
\* accepted tap, inclusive.
C9_ValidatorIff ==
    verdict # << >> =>
        (verdict[1].ok <=>
            /\ Abs(probe.currentTime - probe.timestamp) <= 100
            /\ probe.currentTime - probe.lastTapTimestamp >= 100)

\* Accepted on both boundaries: the timestamp 100 ms ahead, the last tap 100 ms ago.
C9_Witness ==
    /\ verdict # << >>
    /\ verdict[1].ok
    /\ probe.timestamp - probe.currentTime = 100
    /\ probe.currentTime - probe.lastTapTimestamp = 100

\* C10: lastTapTimestamp is the server time of the player's last accepted tap
\* (set to the clock when validatedTaps grows, unchanged otherwise), and a tap
\* of a player who has tapped before is accepted only 100 ms or more after it.
C10_AcceptedTapsApart ==
    [][\A m \in Kept : \A i \in 1..Len(matchObj'[m].players) :
           StillIn(m, i) =>
               IF After(m, i).validatedTaps > Before(m, i).validatedTaps
               THEN /\ After(m, i).lastTapTimestamp = now
                    /\ Before(m, i).validatedTaps >= 1 =>
                           now - Before(m, i).lastTapTimestamp >= 100
               ELSE /\ After(m, i).lastTapTimestamp = Before(m, i).lastTapTimestamp
                    /\ After(m, i).validatedTaps = Before(m, i).validatedTaps]_vars

\* The second tap of a player was accepted exactly two clock steps after the
\* start of the match, where the first tap was accepted at the earliest.
C10_Witness ==
    \E m \in matches : \E i \in 1..Len(matchObj[m].players) :
        /\ matchObj[m].players[i].validatedTaps = 2
        /\ matchObj[m].players[i].lastTapTimestamp = Epoch + START_DELAY + 2 * TickMs
        /\ now = Epoch + START_DELAY + 2 * TickMs

\* The reason an error event gives for a rejected tap, "none" when its payload
\* has no reason field.
ReasonOf(e) == IF "reason" \in DOMAIN e.data THEN e.data.reason ELSE "none"

\* C11: in every reachable state a tap of a roster player on an active match that
\* fails the clock-skew rule is answered with an error of reason ClockSkew, and
\* one that passes it and fails the minimum-interval rule with an error of
\* reason RateLimited.
C11_RejectionNamesReason ==
    \A s \in connected, m \in matches, d \in SkewOffsets :
        matchObj[m].status = "active" =>
            \A i \in 1..Len(matchObj[m].players) :
                LET p == matchObj[m].players[i]
                    es == handleTap(Cur, s, p.id, m, now + d, now).emitted
                    skew == Abs(d) > TAP_VALIDATION_WINDOW
                    fast == (now - p.lastTapTimestamp) * MAX_TAPS_PER_SECOND < 1000
                IN  (skew \/ fast) =>
                        /\ Len(es) = 1
                        /\ es[1].ev = "error"
                        /\ ReasonOf(es[1]) = IF skew THEN "ClockSkew" ELSE "RateLimited"

EndedEvents(es, m) ==
    {i \in 1..Len(es) : es[i].ev = "match_ended" /\ es[i].data.matchId = m}

\* The matches for which the step just taken emitted match_ended.
JustEnded == {m \in DOMAIN matchObj : EndedEvents(emitted, m) # {}}

MostTaps(players) ==
    CHOOSE n \in {players[i].validatedTaps : i \in 1..Len(players)} :
        \A i \in 1..Len(players) : players[i].validatedTaps <= n

\* The first player, in roster order, that holds the greatest count.
Leader(players) ==
    players[CHOOSE i \in 1..Len(players) :
                /\ players[i].validatedTaps = MostTaps(players)
                /\ \A j \in 1..(i - 1) : players[j].validatedTaps < MostTaps(players)]

\* C12: when a match ends with at least one accepted tap in its roster, the
\* winner recorded in the match and sent as winnerId is the player with the
\* greatest validatedTaps, the earliest in roster (Queue insertion) order among
\* those who share it.
C12_WinnerHasMostTaps ==
    \A m \in JustEnded :
        MostTaps(matchObj[m].players) >= 1 =>
            /\ matchObj[m].winner = Some(Leader(matchObj[m].players).id)
            /\ \A i \in EndedEvents(emitted, m) :
                   emitted[i].data.winnerId = Some(Leader(matchObj[m].players).id)

\* A match just ended with both players on one accepted tap each.
C12_Witness ==
    \E m \in JustEnded :
        /\ Len(matchObj[m].players) = MATCH_SIZE
        /\ \A i \in 1..MATCH_SIZE : matchObj[m].players[i].validatedTaps = 1
        /\ matchObj[m].winner = Some(matchObj[m].players[1].id)

\* C13: when a match ends with no accepted tap in its roster, its winner is
\* null, winnerId of match_ended is null and no entry of results has isWinner;
\* and a match has a winner only when it is finished.
C13_NoTapsNoWinner ==
    /\ \A m \in JustEnded :
           MostTaps(matchObj[m].players) = 0 =>
               /\ matchObj[m].winner = Null
               /\ \A i \in EndedEvents(emitted, m) :
                      /\ emitted[i].data.winnerId = Null
                      /\ \A k \in 1..Len(emitted[i].data.results) :
                             ~emitted[i].data.results[k].isWinner
    /\ \A m \in DOMAIN matchObj :
           matchObj[m].winner # Null => matchObj[m].status = "finished"

\* C14: the results of every match_ended hold one entry per roster player with
\* that player's validatedTaps, in descending order of taps and in roster order
\* among equal taps, and isWinner marks exactly the entry whose id is winnerId.
C14_ResultsOrdered ==
    \A m \in JustEnded : \A e \in EndedEvents(emitted, m) :
        LET rs == emitted[e].data.results
            ps == matchObj[m].players
        IN  /\ Len(rs) = Len(ps)
            /\ {rs[k].id : k \in 1..Len(rs)} = MapKeys(ps)
            /\ \A k \in 1..Len(rs) :
                   /\ rs[k].taps = MapGet(ps, rs[k].id).validatedTaps
                   /\ rs[k].isWinner <=> (Some(rs[k].id) = emitted[e].data.winnerId)
            /\ \A k, l \in 1..Len(rs) :
                   k < l =>
                       \/ rs[k].taps > rs[l].taps
                       \/ /\ rs[k].taps = rs[l].taps
                          /\ MapIndex(ps, rs[k].id) < MapIndex(ps, rs[l].id)

\* A match just ended whose second player leads the results with more taps.
C14_Witness ==
    \E m \in JustEnded : \E e \in EndedEvents(emitted, m) :
        /\ Len(matchObj[m].players) = MATCH_SIZE
        /\ emitted[e].data.results[1].id = matchObj[m].players[2].id
        /\ emitted[e].data.results[1].taps > emitted[e].data.results[2].taps
        /\ emitted[e].data.results[2].taps >= 1

\* C15: once endMatch has run for a match (its endTime is set), no later step
\* changes its endTime or its winner or emits match_ended for it again.
C15_EndMatchOnce ==
    [][\A m \in DOMAIN matchObj :
           matchObj[m].endTime # Null =>
               /\ EndedEvents(emitted', m) = {}
               /\ m \in DOMAIN matchObj' =>
                      /\ matchObj'[m].endTime = matchObj[m].endTime
                      /\ matchObj'[m].winner = matchObj[m].winner]_vars

\* The events of es that refer to match m: those carrying its id, a player_tapped
\* to its room and the tap_confirmed that follows one.
EventsOf(es, m) ==
    {i \in 1..Len(es) :
        \/ /\ es[i].ev \in {"match_found", "match_started", "match_ended"}
           /\ es[i].data.matchId = m
        \/ es[i].ev = "player_tapped" /\ es[i].to = ToRoom(m)
        \/ /\ es[i].ev = "tap_confirmed"
           /\ i > 1
           /\ es[i - 1].ev = "player_tapped"
           /\ es[i - 1].to = ToRoom(m)}

\* match_ended has been emitted for m: endMatch has run (endTime is set) and the
\* roster, which only shrinks, still has a player.
EndedFor(m) == matchObj[m].endTime # Null /\ matchObj[m].players # << >>

\* C16: after match_ended has been emitted for a match, no step emits an event
\* that refers to that match.
C16_SilentAfterEnded ==
    [][\A m \in DOMAIN matchObj : EndedFor(m) => EventsOf(emitted', m) = {}]_vars

\* C17: match_started is emitted for a match only before any start, tap or end
\* of it; a tap event only between its start and its end; match_ended only
\* after its start.
C17_EventOrder ==
    [][\A m \in DOMAIN matchObj :
           /\ StartedEvents(emitted', m) # {} =>
                  /\ matchObj[m].startTime = Null
                  /\ matchObj[m].endTime = Null
                  /\ SumTaps(matchObj[m].players) = 0
           /\ TappedEvents(emitted', m) # {} =>
                  /\ matchObj[m].startTime # Null
                  /\ matchObj[m].endTime = Null
           /\ EndedEvents(emitted', m) # {} => matchObj[m].startTime # Null]_vars

\* C18: in every reachable state a join_queue for a player id that has a
\* playerToMatch entry answers the sender with "Already in a match", and one
\* for a player id of playerQueue with "Already in queue"; either leaves the
\* Queue, the matches, both indices and the timers as they were.
C18_JoinRefused ==
    \A s \in connected, u \in UserIds, n \in Usernames :
        /\ u \in DOMAIN playerToMatch =>
               handleJoinQueue(Cur, s, u, n, now) =
                   emit(Cur, Ev("error", ToSocket(s), [message |-> "Already in a match"]))
        /\ (u \in playerQueue /\ u \notin DOMAIN playerToMatch) =>
               handleJoinQueue(Cur, s, u, n, now) =
                   emit(Cur, Ev("error", ToSocket(s), [message |-> "Already in queue"]))

\* A join was refused for a player of a finished match that is not yet cleaned up.
C18_Witness ==
    /\ HasError(emitted, "Already in a match")
    /\ \E m \in matches :
           /\ matchObj[m].status = "finished"
           /\ MapKeys(matchObj[m].players) \subseteq DOMAIN playerToMatch
           /\ Len(matchObj[m].players) = MATCH_SIZE

\* The Player entry a join creates.
Joined(s, u, n) ==
    [id |-> u, socketId |-> s, username |-> n, taps |-> 0, isReady |-> FALSE,
     lastTapTimestamp |-> 0, validatedTaps |-> 0]

\* C19: in every reachable state a join_queue for a player id of neither index
\* first emits queue_joined to the sender with the size of the Queue once the new
\* Player entry (no taps, lastTapTimestamp 0, not ready) is appended; below
\* MATCH_SIZE the entry stays last in the Queue and the id is in playerQueue, and
\* nothing else changes; at MATCH_SIZE only match_found events follow and the
\* entry is the last of the new match's roster.
C19_JoinAppends ==
    \A s \in connected, u \in UserIds, n \in Usernames :
        (u \notin DOMAIN playerToMatch /\ u \notin playerQueue) =>
            LET S == handleJoinQueue(Cur, s, u, n, now)
                Q == Append(queue, Joined(s, u, n))
                ack == Ev("queue_joined", ToSocket(s), [position |-> Len(Q)])
            IN  /\ Len(S.emitted) >= 1
                /\ S.emitted[1] = ack
                /\ \A i \in 2..Len(S.emitted) : S.emitted[i].ev = "match_found"
                /\ IF Len(Q) < MATCH_SIZE
                   THEN S = [Cur EXCEPT !.queue = Q, !.playerQueue = @ \cup {u},
                                        !.emitted = <<ack>>]
                   ELSE /\ Len(S.emitted) = 1 + MATCH_SIZE
                        /\ S.matches = matches \cup {nextMatchId}
                        /\ S.matchObj[nextMatchId].players[MATCH_SIZE] = Joined(s, u, n)

\* The join that completed a match: queue_joined with position MATCH_SIZE, then
\* match_found to both players.
C19_Witness ==
    /\ Len(emitted) = 1 + MATCH_SIZE
    /\ emitted[1].ev = "queue_joined"
    /\ emitted[1].data.position = MATCH_SIZE
    /\ \A i \in 2..Len(emitted) : emitted[i].ev = "match_found"

FoundEvents(es) == {i \in 1..Len(es) : es[i].ev = "match_found"}

\* C20: a step that emits match_found has created one match under an id that no
\* match had: a waiting match of exactly MATCH_SIZE players, the players of the
\* Queue first and in the Queue's order; these players have left the Queue and
\* playerQueue, playerToMatch maps each of them to the new match, and match_found
\* goes once to each of them, in roster order, with the match id and the roster
\* of ids and usernames in that order.
C20_MatchCreated ==
    [][FoundEvents(emitted') # {} =>
           LET m == nextMatchId
               ps == matchObj'[m].players
           IN  /\ m \notin DOMAIN matchObj
               /\ matches' = matches \cup {m}
               /\ nextMatchId' \notin matches'
               /\ matchObj'[m] = [id |-> m, players |-> ps, status |-> "waiting",
                                  startTime |-> Null, endTime |-> Null,
                                  duration |-> MATCH_DURATION, winner |-> Null]
               /\ Len(ps) = MATCH_SIZE
               /\ Len(queue) = MATCH_SIZE - 1
               /\ SubSeq(ps, 1, Len(queue)) = queue
               /\ queue' = << >>
               /\ playerQueue' = playerQueue \ MapKeys(ps)
               /\ playerToMatch' =
                      [p \in DOMAIN playerToMatch \cup MapKeys(ps) |->
                          IF p \in MapKeys(ps) THEN m ELSE playerToMatch[p]]
               /\ SubSeq(emitted', 2, Len(emitted')) =
                      [i \in 1..MATCH_SIZE |->
                          Ev("match_found", ToSocket(ps[i].socketId),
                             [matchId |-> m,
                              players |-> [k \in 1..MATCH_SIZE |->
                                  [id |-> ps[k].id, username |-> ps[k].username]]])]
               /\ timers' = Append(timers, [kind |-> "start", match |-> m,
                                            at |-> now + START_DELAY])]_vars

\* The second match of a run was just created from a full Queue.
C20_Witness ==
    /\ FoundEvents(emitted) # {}
    /\ nextMatchId = 3
    /\ 2 \in matches
    /\ matchObj[2].status = "waiting"
    /\ queue = << >>

\* C21: in every reachable state a leave_queue for a player id that is not in
\* playerQueue answers the sender with "Not in queue" and changes nothing; one
\* for a queued player removes that one entry from the Queue, keeping the others
\* in order, removes the id from playerQueue, emits queue_left to the sender and
\* changes nothing else.
C21_LeaveQueue ==
    \A s \in connected, u \in UserIds :
        LET S == handleLeaveQueue(Cur, s, u)
        IN  IF u \notin playerQueue
            THEN S = emit(Cur, Ev("error", ToSocket(s), [message |-> "Not in queue"]))
            ELSE \E k \in 1..Len(queue) :
                     /\ queue[k].id = u
                     /\ S = [Cur EXCEPT
                                !.queue = RemoveAt(queue, k),
                                !.playerQueue = playerQueue \ {u},
                                !.emitted = <<Ev("queue_left", ToSocket(s),
                                                 [none |-> TRUE])>>]

\* A leave_queue was refused while the players were in a match.
C21_Witness ==
    /\ HasError(emitted, "Not in queue")
    /\ DOMAIN playerToMatch = UserIds
    /\ queue = << >>

\* The state after join_queue and then leave_queue for the same player.
JoinThenLeave(s, u, n) ==
    handleLeaveQueue([handleJoinQueue(Cur, s, u, n, now) EXCEPT !.emitted = << >>], s, u)

\* The Queue, the matches and both indices of S are those of the current state.
Restored(S) ==
    /\ S.queue = queue
    /\ S.playerQueue = playerQueue
    /\ S.playerToMatch = playerToMatch
    /\ S.matches = matches
    /\ \A m \in matches : S.matchObj[m] = matchObj[m]

\* C22 as stated: in every reachable state and for every player, join_queue
\* followed at once by leave_queue restores the Queue, the matches and both
\* indices.
C22_JoinLeaveRestores ==
    \A s \in connected, u \in UserIds, n \in Usernames : Restored(JoinThenLeave(s, u, n))

\* C22, amended: join_queue followed at once by leave_queue restores the Queue,
\* the matches and both indices for every player that is not already queued and
\* whose join does not fill the Queue to MATCH_SIZE (a player of a match is
\* refused twice; a new player joins and leaves).
C22_JoinLeaveRestoresUnlessMatched ==
    \A s \in connected, u \in UserIds, n \in Usernames :
        (/\ u \notin playerQueue
         /\ (u \in DOMAIN playerToMatch \/ Len(queue) + 1 < MATCH_SIZE)) =>
            Restored(JoinThenLeave(s, u, n))

\* A player joined the empty Queue and left it again before any match existed.
C22_Witness ==
    /\ emitted = <<Ev("queue_left", ToSocket(1), [none |-> TRUE])>>
    /\ queue = << >>
    /\ playerQueue = {}
    /\ matches = {}
    /\ nextMatchId = 1

\* The roster ps with the ready flag of player u set.
WithReady(ps, u) ==
    [i \in 1..Len(ps) |-> IF ps[i].id = u THEN [ps[i] EXCEPT !.isReady = TRUE] ELSE ps[i]]

\* C23: in every reachable state a player_ready for an unknown match answers
\* "Match not found" and one for a player outside the roster "Player not in
\* match", changing nothing; otherwise it sets that player's ready flag and
\* nothing else, except that a waiting match whose players are then all ready
\* becomes active and match_started is emitted.
C23_PlayerReady ==
    \A s \in connected, u \in UserIds, m \in MatchIds :
        LET S == handlePlayerReady(Cur, s, u, m, now)
        IN  IF m \notin matches
            THEN S = emit(Cur, Ev("error", ToSocket(s), [message |-> "Match not found"]))
            ELSE IF u \notin MapKeys(matchObj[m].players)
            THEN S = emit(Cur, Ev("error", ToSocket(s),
                                  [message |-> "Player not in match"]))
            ELSE
                LET ps == WithReady(matchObj[m].players, u)
                IN  IF /\ matchObj[m].status = "waiting"
                       /\ \A i \in 1..Len(ps) : ps[i].isReady
                    THEN /\ S.matchObj[m].status = "active"
                         /\ S.matchObj[m].players = ps
                         /\ StartedEvents(S.emitted, m) # {}
                    ELSE S = [Cur EXCEPT !.matchObj[m].players = ps]

\* The last player_ready of a waiting match started it before the start delay.
C23_Witness ==
    /\ now < Epoch + START_DELAY
    /\ \E m \in matches :
           /\ StartedEvents(emitted, m) # {}
           /\ matchObj[m].status = "active"
           /\ \A i \in 1..Len(matchObj[m].players) : matchObj[m].players[i].isReady

\* C24: in every reachable state, a disconnect of a connection that holds a
\* player of a match whose roster keeps another player removes the connection's
\* players from that roster and from playerToMatch, emits player_disconnected
\* with each removed id to every remaining player and nothing else for that
\* match, and leaves the rest of the match (status, startTime, the remaining
\* players and their taps) and the timers of that match unchanged.
C24_DisconnectKeepsMatch ==
    \A s \in connected : \A m \in matches :
        LET S == handleDisconnect(Cur, s, now)
            ps == matchObj[m].players
            gone == SelectSeq(ps, LAMBDA p : p.socketId = s)
            left == SelectSeq(ps, LAMBDA p : p.socketId # s)
        IN  (gone # << >> /\ left # << >>) =>
                /\ S.matches = matches
                /\ S.matchObj[m] = [matchObj[m] EXCEPT !.players = left]
                /\ \A i \in 1..Len(gone) : gone[i].id \notin DOMAIN S.playerToMatch
                /\ SelectSeq(S.timers, LAMBDA tm : tm.match = m) =
                       SelectSeq(timers, LAMBDA tm : tm.match = m)
                /\ EventsOf(S.emitted, m) = {}
                /\ \A i \in 1..Len(gone), k \in 1..Len(left) :
                       \E e \in 1..Len(S.emitted) :
                           S.emitted[e] = Ev("player_disconnected",
                                             ToSocket(left[k].socketId),
                                             [playerId |-> gone[i].id])

\* A player of an active match disconnected and the remaining player, who has an
\* accepted tap, was told so.
C24_Witness ==
    \E m \in matches :
        /\ matchObj[m].status = "active"
        /\ Len(matchObj[m].players) = 1
        /\ matchObj[m].players[1].validatedTaps = 1
        /\ Len(emitted) = 1
        /\ emitted[1].ev = "player_disconnected"
        /\ emitted[1].to = ToSocket(matchObj[m].players[1].socketId)

\* C25: a step that empties the roster of a waiting or active match makes it
\* finished with no winner and schedules its cleanup; and a finished match with
\* an empty roster stays finished for as long as it is in the matches Map.
C25_EmptyMatchStaysFinished ==
    [][\A m \in matches \cap matches' :
           /\ (/\ matchObj[m].status \in {"waiting", "active"}
               /\ matchObj[m].players # << >>
               /\ matchObj'[m].players = << >>) =>
                  /\ matchObj'[m].status = "finished"
                  /\ matchObj'[m].winner = Null
                  /\ \E i \in 1..Len(timers') :
                         timers'[i] = [kind |-> "cleanup", match |-> m,
                                       at |-> now + CLEANUP_DELAY]
           /\ (matchObj[m].status = "finished" /\ matchObj[m].players = << >>) =>
                  matchObj'[m].status = "finished"]_vars

\* Connection s holds a player of the Queue or of a match of the matches Map.
Owns(s) ==
    \/ \E i \in 1..Len(queue) : queue[i].socketId = s
    \/ \E m \in matches : \E i \in 1..Len(matchObj[m].players) :
           matchObj[m].players[i].socketId = s

\* C26: in every reachable state the disconnect of a connection that holds no
\* queued player and no roster player changes nothing and emits nothing, and a
\* second disconnect of any connection right after the first changes nothing
\* and emits nothing.
C26_DisconnectIdempotent ==
    \A s \in SocketIds :
        LET once == [handleDisconnect(Cur, s, now) EXCEPT !.emitted = << >>]
        IN  /\ ~Owns(s) => handleDisconnect(Cur, s, now) = Cur
            /\ handleDisconnect(once, s, now) = once

\* Both connections are gone and neither ever held a player of a match: the last
\* disconnect found an empty Queue.
C26_Witness ==
    /\ nextSocket = MaxSockets + 1
    /\ connected = {}
    /\ nextMatchId = 1
    /\ queue = << >>
    /\ emitted = << >>

\* C27: every player_tapped emitted for a match reaches the socket of every
\* player in that match's roster.
C27_TapReachesRoster ==
    \A m \in matches : \A e \in TappedEvents(emitted, m) :
        \A i \in 1..Len(matchObj[m].players) :
            matchObj[m].players[i].socketId \in Recipients(emitted[e])

\* The result S of a request of connection s, if it holds an error event, holds
\* that one event only, sent to s and reaching s alone, and no match has
\* changed status or left or entered the matches Map.
ErrorOnlyTo(S, s) ==
    (\E i \in 1..Len(S.emitted) : S.emitted[i].ev = "error") =>
        /\ Len(S.emitted) = 1
        /\ S.emitted[1].to = ToSocket(s)
        /\ Recipients(S.emitted[1]) = {s}
        /\ S.matches = matches
        /\ \A m \in matches : S.matchObj[m].status = matchObj[m].status

\* C28: in every reachable state, every join_queue, leave_queue, player_ready
\* and tap that is answered with an error is answered with exactly one error
\* event, to the sender alone, and changes no match's status.
C28_ErrorsToSenderOnly ==
    \A s \in connected, u \in UserIds :
        /\ \A n \in Usernames : ErrorOnlyTo(handleJoinQueue(Cur, s, u, n, now), s)
        /\ ErrorOnlyTo(handleLeaveQueue(Cur, s, u), s)
        /\ \A m \in MatchIds :
               /\ ErrorOnlyTo(handlePlayerReady(Cur, s, u, m, now), s)
               /\ \A d \in SkewOffsets : ErrorOnlyTo(handleTap(Cur, s, u, m, now + d, now), s)

\* A player_ready for a player who is no longer in the match's roster was refused.
C28_Witness ==
    /\ Len(emitted) = 1
    /\ HasError(emitted, "Player not in match")
    /\ emitted[1].to.id \in connected
    /\ \E m \in matches : Len(matchObj[m].players) = 1

\* C29: in every reachable state a join_queue, leave_queue or player_ready
\* whose payload has no userId is answered with the error "bad payload" to the
\* sender and changes nothing.
C29_BadPayloadRejected ==
    \A s \in connected :
        LET refused == emit(Cur, Ev("error", ToSocket(s), [message |-> "bad payload"]))
        IN  /\ \A n \in Usernames : handleJoinQueue(Cur, s, Undefined, n, now) = refused
            /\ handleLeaveQueue(Cur, s, Undefined) = refused
            /\ \A m \in MatchIds : handlePlayerReady(Cur, s, Undefined, m, now) = refused

\* C30: when every scheduled timer fires, every match of the matches Map is
\* eventually deleted from it, with no playerToMatch entry left pointing to it.
C30_MatchEventuallyDeleted ==
    \A m \in MatchIds :
        (m \in matches) ~>
            (/\ m \notin matches
             /\ \A p \in DOMAIN playerToMatch : playerToMatch[p] # m)

\* A match whose players all disconnected while it was waiting has been deleted
\* by its cleanup, and no timer is left.
C30_Witness ==
    /\ nextMatchId = 2
    /\ matches = {}
    /\ DOMAIN playerToMatch = {}
    /\ connected = {}
    /\ timers = << >>
    /\ now = Epoch + START_DELAY + MATCH_DURATION

\* match_ended for m has just been emitted to the socket of every player of its
\* roster.
EndedToRoster(m) ==
    \A i \in 1..Len(matchObj[m].players) :
        \E e \in EndedEvents(emitted, m) :
            emitted[e].to = ToSocket(matchObj[m].players[i].socketId)

\* C31: when every scheduled timer fires, a waiting match becomes active unless
\* its roster becomes empty, whether or not a player_ready is sent; and a match
\* that is active becomes finished, with match_ended emitted to every player of
\* its roster.
C31_MatchRunsToEnd ==
    \A m \in MatchIds :
        /\ (m \in matches /\ matchObj[m].status = "waiting") ~>
               (m \in matches /\ (matchObj[m].status = "active" \/ matchObj[m].players = << >>))
        /\ (m \in matches /\ matchObj[m].status = "active") ~>
               (m \in matches /\ matchObj[m].status = "finished" /\ EndedToRoster(m))

\* What does hold of the same runs: a waiting match becomes active unless its
\* roster becomes empty, and an active match that has a player becomes finished
\* with match_ended emitted to every player of its roster.
C31_WaitingBecomesActive ==
    \A m \in MatchIds :
        (m \in matches /\ matchObj[m].status = "waiting") ~>
            (m \in matches /\ (matchObj[m].status = "active" \/ matchObj[m].players = << >>))

C31_ActiveWithPlayersFinishes ==
    \A m \in MatchIds :
        (m \in matches /\ matchObj[m].status = "active" /\ matchObj[m].players # << >>) ~>
            (m \in matches /\ matchObj[m].status = "finished" /\ EndedToRoster(m))

\* C32: in every reachable state, startMatch on a match of the matches Map that
\* is active or finished changes nothing: no field of the match, no event, no
\* timer.
C32_StartMatchGuarded ==
    \A m \in matches :
        matchObj[m].status \in {"active", "finished"} =>
            startMatch(Cur, m, now) = Cur

\* C33: in every reachable state the Queue holds fewer than MATCH_SIZE players,
\* and so it does after any join_queue; a join that is acknowledged with
\* position MATCH_SIZE has created a match of the Queue's players in the same
\* call.
C33_QueueBelowMatchSize ==
    /\ Len(queue) < MATCH_SIZE
    /\ \A s \in connected, u \in UserIds, n \in Usernames :
           LET S == handleJoinQueue(Cur, s, u, n, now)
           IN  /\ Len(S.queue) < MATCH_SIZE
               /\ (\E i \in 1..Len(S.emitted) :
                       /\ S.emitted[i].ev = "queue_joined"
                       /\ S.emitted[i].data.position >= MATCH_SIZE) =>
                      /\ S.matches = matches \cup {nextMatchId}
                      /\ nextMatchId \notin matches
                      /\ S.queue = << >>
                      /\ FoundEvents(S.emitted) # {}

\* The join that filled the Queue for the first time was paired at once: the
\* Queue and playerQueue are empty and the first match is waiting.
C33_Witness ==
    /\ \E i \in 1..Len(emitted) :
           emitted[i].ev = "queue_joined" /\ emitted[i].data.position = MATCH_SIZE
    /\ queue = << >>
    /\ playerQueue = {}
    /\ nextMatchId = 2
    /\ matches = {1}

\* C34: in every reachable state the ids in playerQueue are exactly the ids of
\* the players in the Queue, and no id occurs twice in the Queue.
C34_QueueMatchesIndex ==
    /\ playerQueue = MapKeys(queue)
    /\ \A i, j \in 1..Len(queue) : queue[i].id = queue[j].id => i = j

\* A player waits in the Queue, indexed in playerQueue, after another connection
\* has come and gone without a match being created.
C34_Witness ==
    /\ Len(queue) = 1
    /\ queue[1].id \in playerQueue
    /\ queue[1].socketId \in connected
    /\ Cardinality(connected) = 1
    /\ nextSocket = MaxSockets + 1
    /\ nextMatchId = 1

\* C35: whenever a cleanup callback is due, running it deletes its match from
\* the matches Map, removes exactly the playerToMatch entries that point to that
\* match, and leaves every other entry, every other match, the Queue, the timers
\* and the events alone.
C35_CleanupFrame ==
    \A i \in DOMAIN timers :
        (timers[i].kind = "cleanup" /\ timers[i].at <= now) =>
            LET m == timers[i].match
                S == cleanup(Cur, m)
            IN  /\ S.matches = matches \ {m}
                /\ DOMAIN S.playerToMatch =
                       {p \in DOMAIN playerToMatch : playerToMatch[p] # m}
                /\ \A p \in DOMAIN S.playerToMatch : S.playerToMatch[p] = playerToMatch[p]
                /\ \A x \in matches \ {m} : S.matchObj[x] = matchObj[x]
                /\ S.queue = queue
                /\ S.playerQueue = playerQueue
                /\ S.timers = timers
                /\ S.emitted = << >>

\* C36: in every reachable state a waiting match has neither startTime nor
\* endTime, an active match has a startTime and a finished match has an endTime;
\* and in every step a startTime that is set keeps its value, and an endTime is
\* set only by a step that makes the match finished.
C36_Timestamps ==
    /\ [](\A m \in matches :
              /\ matchObj[m].status = "waiting" =>
                     matchObj[m].startTime = Null /\ matchObj[m].endTime = Null
              /\ matchObj[m].status = "active" => matchObj[m].startTime # Null
              /\ matchObj[m].status = "finished" => matchObj[m].endTime # Null)
    /\ [][\A m \in DOMAIN matchObj \cap DOMAIN matchObj' :
              /\ matchObj[m].startTime # Null =>
                     matchObj'[m].startTime = matchObj[m].startTime
              /\ (matchObj[m].endTime = Null /\ matchObj'[m].endTime # Null) =>
                     (matchObj[m].status # "finished" /\ matchObj'[m].status = "finished")]_vars

\* The pending duration timers of match m.
EndTimers(m) == {i \in DOMAIN timers : timers[i].kind = "end" /\ timers[i].match = m}

\* C37: in every reachable state a match has at most one pending duration
\* timer, and the deadline of a pending duration timer of a match of the
\* matches Map is the match's startTime plus its duration.
C37_OneEndTimer ==
    \A m \in MatchIds :
        /\ Cardinality(EndTimers(m)) <= 1
        /\ \A i \in EndTimers(m) :
               m \in matches =>
                   /\ matchObj[m].startTime # Null
                   /\ timers[i].at = matchObj[m].startTime[1] + matchObj[m].duration

\* C38: every match_ended just emitted for a match lists in its results exactly
\* the players of the roster, each once and each on a live connection, and its
\* winnerId, when not null, is the id of one of the results.
C38_ResultsAreRoster ==
    \A m \in JustEnded : \A e \in EndedEvents(emitted, m) :
        LET results == emitted[e].data.results
            players == matchObj[m].players
            ids == {results[i].id : i \in 1..Len(results)}
        IN  /\ Len(results) = Len(players)
            /\ ids = MapKeys(players)
            /\ \A i, j \in 1..Len(results) : results[i].id = results[j].id => i = j
            /\ \A i \in 1..Len(players) : players[i].socketId \in connected
            /\ emitted[e].data.winnerId # Null => emitted[e].data.winnerId[1] \in ids

\* A match has just ended after one of its two players disconnected: the one
\* result is the remaining player, who wins.
C38_Witness ==
    \E m \in JustEnded : \E e \in EndedEvents(emitted, m) :
        /\ Len(emitted[e].data.results) = 1
        /\ Len(matchObj[m].players) = 1
        /\ emitted[e].data.winnerId = Some(matchObj[m].players[1].id)
        /\ Cardinality(connected) = 1

\* C39: in every reachable state no roster of a match holds two players with
\* the same socket id.
C39_NoSelfPairing ==
    \A m \in matches :
        \A i, j \in 1..Len(matchObj[m].players) :
            matchObj[m].players[i].socketId = matchObj[m].players[j].socketId => i = j

\* A request of a user with amount a is refused with the given text and leaves
\* the wallets and the transactions as they were.
Refused(W, text) ==
    /\ W.response # Null
    /\ W.response[1].status = 400
    /\ W.response[1].text = text
    /\ W.wallets = wallets
    /\ W.transactions = transactions

\* C40: in every reachable state of the wallet service every balance is >= 0;
\* a withdrawal of more than the balance is refused with "Insufficient balance",
\* a deposit or withdrawal of an amount <= 0 is refused, and so is a deposit
\* above the limit, each leaving the wallets and the transactions unchanged.
C40_BalanceNeverNegative ==
    /\ \A u \in DOMAIN wallets : JsLessEq(JsNum(0), wallets[u])
    /\ \A u \in UserIds, a \in Amounts :
           /\ (~JsLessEq(a, JsNum(0)) /\ JsGreater(a, balanceOf(CurWallet, u))) =>
                  Refused(withdrawal(CurWallet, u, a), "Insufficient balance")
           /\ JsLessEq(a, JsNum(0)) =>
                  /\ Refused(deposit(CurWallet, u, a), "Invalid amount. Must be greater than 0.")
                  /\ Refused(withdrawal(CurWallet, u, a), "Invalid amount. Must be greater than 0.")
           /\ JsGreater(a, JsNum(DepositLimit)) =>
                  Refused(deposit(CurWallet, u, a),
                          "Deposit amount exceeds maximum limit of $10,000")

====
